---- MODULE Spec2Model ----
(***************************************************************************)
(* Wave-function-collapse tile solver of src/main.rs: a board of cells,    *)
(* each Collapsed to one tile name or Uncollapsed with a domain (a Vec of   *)
(* tile names), and the recursive backtracking procedure collapse() with    *)
(* its helpers get_lowest_entropy, is_collapsed, propagate_collapse,        *)
(* restore_domains and is_valid_placement.  The recursion of collapse() is  *)
(* unfolded on an explicit stack of frames, one frame per active call.      *)
(***************************************************************************)
EXTENDS Integers, Sequences, FiniteSets, TLC

(***************************************************************************)
(* Bounds of the model.                                                    *)
(***************************************************************************)
\* largest number of cells of a board (the program's board is 50 x 50)
MaxCells == 4
\* largest extent of a board in either coordinate
MaxExtent == 3

\* usize::MAX, the initial lowest_len of get_lowest_entropy: any number above
\* every domain length behaves alike
UsizeMax == 1000000

(***************************************************************************)
(* Adjacency rules: prototype_map, a map from tile name to BoardCharacter; *)
(* valid_neighbors maps a direction name to a list of tile names.  Only    *)
(* contains() is ever asked of a list, so a list is modelled as a set.     *)
(* A map is a function; a key the map lacks is outside its DOMAIN.          *)
(***************************************************************************)
Directions == {"right", "left", "above", "below"}

Both == {"A", "B"}

\* every list allows every tile
AllowAll == [t \in Both |-> [d \in Directions |-> Both]]

\* every list is empty
AllowNone == [t \in Both |-> [d \in Directions |-> {}]]

\* A allows only B to its right, B allows only A to its left
Directed ==
    [t \in Both |-> [d \in Directions |->
        IF t = "A" /\ d = "right" THEN {"B"}
        ELSE IF t = "B" /\ d = "left" THEN {"A"}
        ELSE {}]]

\* the same relation under the labels of the second coordinate
DirectedAbove ==
    [t \in Both |-> [d \in Directions |->
        IF t = "A" /\ d = "above" THEN {"B"}
        ELSE IF t = "B" /\ d = "below" THEN {"A"}
        ELSE {}]]

\* asymmetric: B lists A in "left" and "below", but A does not list B in
\* "right" or "above" (A lists only A)
OneSided ==
    [t \in Both |-> [d \in Directions |->
        IF t = "A" THEN {"A"} ELSE {"A", "B"}]]

\* asymmetric and satisfiable with both tiles: every tile lists every tile in
\* "right" and "above", but B does not list B in "left" or "below"
Skewed ==
    [t \in Both |-> [d \in Directions |->
        IF t = "B" /\ d \in {"left", "below"} THEN {"A"} ELSE Both]]

\* tiles alternate: each tile allows only the other one, everywhere
Alternate ==
    [t \in Both |-> [d \in Directions |-> Both \ {t}]]

\* B is a dead end: nothing may follow B (B.right = B.above = {}), and every
\* tile wants A before it; a run is A...A then possibly one B
DeadEnd ==
    [t \in Both |-> [d \in Directions |->
        IF d \in {"left", "below"} THEN {"A"}
        ELSE IF t = "A" THEN Both ELSE {}]]

\* not total: the lists name a tile "C" that has no entry of its own
Dangling ==
    [t \in Both |-> [d \in Directions |-> {t, "C"}]]

\* B has no "right" list at all (the key is missing from valid_neighbors)
MissingDirection ==
    [t \in Both |-> IF t = "A" THEN [d \in Directions |-> Both]
                    ELSE [d \in Directions \ {"right"} |-> Both]]

\* a single tile that allows itself
OnlyA == [t \in {"A"} |-> [d \in Directions |-> {"A"}]]

RuleTables ==
    {AllowAll, AllowNone, Directed, DirectedAbove, OneSided, Skewed, Alternate,
     DeadEnd, Dangling, MissingDirection, OnlyA}

\* a rule table is total when every name in a list has an entry
IsTotal(pm) ==
    \A t \in DOMAIN pm : \A d \in DOMAIN pm[t] : pm[t][d] \subseteq DOMAIN pm

(***************************************************************************)
(* Tiles and boards.                                                       *)
(***************************************************************************)
Collapsed(val) == [tag |-> "Collapsed", val |-> val, domain |-> <<>>]

Uncollapsed(domain) == [tag |-> "Uncollapsed", val |-> "", domain |-> domain]

\* Tile::domain_from
domain_from(val) == Uncollapsed(<<val>>)

\* the board sizes of the model: extents from 1 to MaxExtent, at most
\* MaxCells cells
Sizes ==
    {d \in (1..MaxExtent) \X (1..MaxExtent) : d[1] * d[2] <= MaxCells}

\* the keys of the board: [row, col] for row in 0..size[1], col in 0..size[2]
Cells(size) == (0..(size[1] - 1)) \X (0..(size[2] - 1))

RECURSIVE Perms(_)
\* all orders in which the elements of S can be listed
Perms(S) ==
    IF S = {} THEN {<<>>}
    ELSE UNION {{<<x>> \o p : p \in Perms(S \ {x})} : x \in S}

Range(s) == {s[i] : i \in DOMAIN s}

\* all rearrangements of the sequence s
Shuffles(s) ==
    {[i \in DOMAIN s |-> s[p[i]]] : p \in Perms(DOMAIN s)}

\* Tile::default_domain: the keys of prototype_map in the map's iteration
\* order, which is the same order at every call on the unmodified map
default_domain(key_order) == Uncollapsed(key_order)

\* Board::create
create(key_order, size) == [pos \in Cells(size) |-> default_domain(key_order)]

(***************************************************************************)
(* Queries of the board.                                                   *)
(***************************************************************************)
RECURSIVE scan_lowest_strict(_, _, _, _, _)
\* mutant of scan_lowest: a cell replaces the lowest only when strictly lower
scan_lowest_strict(b, order, k, lowest_len, lowest_index) ==
    IF k > Len(order) THEN lowest_index
    ELSE LET pos == order[k]
             tile == b[pos]
         IN  IF tile.tag = "Collapsed"
             THEN scan_lowest_strict(b, order, k + 1, lowest_len, lowest_index)
             ELSE IF Len(tile.domain) < lowest_len
                  THEN scan_lowest_strict(b, order, k + 1, Len(tile.domain), pos)
                  ELSE scan_lowest_strict(b, order, k + 1, lowest_len, lowest_index)

RECURSIVE scan_lowest(_, _, _, _, _)
\* the loop of get_lowest_entropy over the cells in iteration order `order`,
\* from its k-th cell on
scan_lowest(b, order, k, lowest_len, lowest_index) ==
    IF k > Len(order) THEN lowest_index
    ELSE LET pos == order[k]
             tile == b[pos]
         IN  IF tile.tag = "Collapsed"
             THEN scan_lowest(b, order, k + 1, lowest_len, lowest_index)
             ELSE IF Len(tile.domain) <= lowest_len
                  THEN scan_lowest(b, order, k + 1, Len(tile.domain), pos)
                  ELSE scan_lowest(b, order, k + 1, lowest_len, lowest_index)

\* mutant of get_lowest_entropy: the first cell of the iteration is returned
get_lowest_entropy_first(b, order) == order[1]

\* get_lowest_entropy; `order` is the iteration order of the HashMap
get_lowest_entropy(b, order) == scan_lowest(b, order, 1, UsizeMax, <<0, 0>>)

\* mutant of is_collapsed: a board is never seen as fully collapsed
is_collapsed_never(b) == FALSE

is_collapsed(b) == \A pos \in DOMAIN b : b[pos].tag # "Uncollapsed"

\* mutant of adjacent: the labels of the first coordinate are exchanged
adjacent_mirrored(pos) ==
    LET pr == pos[1]
        pc == pos[2]
    IN  << [label |-> "left",  pos |-> <<pr - 1, pc>>],
           [label |-> "right", pos |-> <<pr + 1, pc>>],
           [label |-> "above", pos |-> <<pr, pc - 1>>],
           [label |-> "below", pos |-> <<pr, pc + 1>>] >>

\* the four neighbours of pos in the order the code visits them, each with
\* the direction label the code reads for it
adjacent(pos) ==
    LET pr == pos[1]
        pc == pos[2]
    IN  << [label |-> "right", pos |-> <<pr - 1, pc>>],
           [label |-> "left",  pos |-> <<pr + 1, pc>>],
           [label |-> "above", pos |-> <<pr, pc - 1>>],
           [label |-> "below", pos |-> <<pr, pc + 1>>] >>

\* mutant of lookup_misses: a list naming a tile without entry is a miss too
lookup_misses_strict(pm, name, label) ==
    \/ name \notin DOMAIN pm
    \/ label \notin DOMAIN pm[name]
    \/ ~(pm[name][label] \subseteq DOMAIN pm)

\* prototype_map[name].valid_neighbors[label] panics when a key is missing
lookup_misses(pm, name, label) ==
    \/ name \notin DOMAIN pm
    \/ label \notin DOMAIN pm[name]

\* mutant of allows: every tile is taken as allowed
allows_any(pm, name, label, val) == TRUE

\* mutant of allows: the list of the collapsed value is read instead of the
\* list of the candidate
allows_reversed(pm, name, label, val) ==
    /\ val \in DOMAIN pm
    /\ label \in DOMAIN pm[val]
    /\ name \in pm[val][label]

\* prototype_map[name].valid_neighbors[label].contains(val)
allows(pm, name, label, val) == val \in pm[name][label]

RECURSIVE valid_from(_, _, _, _, _)
\* the checks of is_valid_placement from the k-th neighbour on:
\* "true", "false", or "panic" on a lookup miss
valid_from(b, pm, val, pos, k) ==
    IF k > 4 THEN "true"
    ELSE LET adj == adjacent(pos)[k]
         IN  IF adj.pos \in DOMAIN b /\ b[adj.pos].tag = "Collapsed"
             THEN IF lookup_misses(pm, b[adj.pos].val, adj.label) THEN "panic"
                  ELSE IF ~allows(pm, b[adj.pos].val, adj.label, val) THEN "false"
                  ELSE valid_from(b, pm, val, pos, k + 1)
             ELSE valid_from(b, pm, val, pos, k + 1)

\* mutant of is_valid_placement: the collapsed neighbours are not consulted
is_valid_placement_unchecked(b, pm, val, pos) == "true"

is_valid_placement(b, pm, val, pos) == valid_from(b, pm, val, pos, 1)

(***************************************************************************)
(* Propagation and restoration.                                            *)
(***************************************************************************)
RECURSIVE propagate_from(_, _, _, _, _)
\* propagate_collapse from the k-th neighbour on, with `modified` so far;
\* domain.retain keeps, in order, the elements the closure accepts and the
\* closure logs, in order, the elements it rejects
propagate_from(b, pm, pos, k, modified) ==
    IF k > 4 THEN [board |-> b, modified |-> modified]
    ELSE LET adj == adjacent(pos)[k]
             val == b[pos].val
         IN  IF adj.pos \in DOMAIN b /\ b[adj.pos].tag = "Uncollapsed"
             THEN LET domain == b[adj.pos].domain
                      keep(e) == allows(pm, e, adj.label, val)
                      drop(e) == ~allows(pm, e, adj.label, val)
                      removed == SelectSeq(domain, drop)
                      log == [i \in DOMAIN removed |-> <<adj.pos, removed[i]>>]
                  IN  propagate_from(
                          [b EXCEPT ![adj.pos] = Uncollapsed(SelectSeq(domain, keep))],
                          pm, pos, k + 1, modified \o log)
             ELSE propagate_from(b, pm, pos, k + 1, modified)

\* mutant of propagate_collapse: nothing is removed from the neighbours
propagate_collapse_idle(b, pm, pos) == [board |-> b, modified |-> <<>>]

\* mutant of propagate_collapse: the removals are made but not logged
propagate_collapse_unlogged(b, pm, pos) ==
    IF b[pos].tag = "Uncollapsed" THEN [board |-> b, modified |-> <<>>]
    ELSE [board |-> propagate_from(b, pm, pos, 1, <<>>).board, modified |-> <<>>]

\* mutant of propagate_collapse: the list also names the collapsed cell
propagate_collapse_logs_self(b, pm, pos) ==
    IF b[pos].tag = "Uncollapsed" THEN [board |-> b, modified |-> <<>>]
    ELSE LET after == propagate_from(b, pm, pos, 1, <<>>)
         IN  [board |-> after.board,
              modified |-> after.modified \o <<<<pos, b[pos].val>>>>]

\* propagate_collapse: the board after it and the list it returns
propagate_collapse(b, pm, pos) ==
    IF b[pos].tag = "Uncollapsed" THEN [board |-> b, modified |-> <<>>]
    ELSE propagate_from(b, pm, pos, 1, <<>>)

\* propagate_collapse panics when the closure of retain misses a lookup
propagate_panics(b, pm, pos) ==
    /\ b[pos].tag = "Collapsed"
    /\ \E k \in 1..4 :
          LET adj == adjacent(pos)[k]
          IN  /\ adj.pos \in DOMAIN b
              /\ b[adj.pos].tag = "Uncollapsed"
              /\ \E e \in Range(b[adj.pos].domain) : lookup_misses(pm, e, adj.label)

\* mutant of restore_one: the tile replaces the domain instead of joining it
restore_one_lossy(b, pos, tile_name) ==
    IF pos \in DOMAIN b THEN [b EXCEPT ![pos] = domain_from(tile_name)] ELSE b

\* mutant of restore_one: the tile is appended twice
restore_one_twice(b, pos, tile_name) ==
    IF pos \in DOMAIN b
    THEN IF b[pos].tag = "Uncollapsed"
         THEN [b EXCEPT ![pos] =
                  Uncollapsed(Append(Append(b[pos].domain, tile_name), tile_name))]
         ELSE [b EXCEPT ![pos] = domain_from(tile_name)]
    ELSE b

\* one iteration of the loop of restore_domains
restore_one(b, pos, tile_name) ==
    IF pos \in DOMAIN b
    THEN IF b[pos].tag = "Uncollapsed"
         THEN [b EXCEPT ![pos] = Uncollapsed(Append(b[pos].domain, tile_name))]
         ELSE [b EXCEPT ![pos] = domain_from(tile_name)]
    ELSE b

\* mutant of restore_domains: only the first pair is put back
restore_domains_head(b, tiles) ==
    IF tiles = <<>> THEN b ELSE restore_one(b, Head(tiles)[1], Head(tiles)[2])

\* mutant of restore_domains: nothing is put back
restore_domains_nothing(b, tiles) == b

RECURSIVE restore_domains(_, _)
restore_domains(b, tiles) ==
    IF tiles = <<>> THEN b
    ELSE restore_domains(restore_one(b, Head(tiles)[1], Head(tiles)[2]), Tail(tiles))

(***************************************************************************)
(* State.                                                                  *)
(***************************************************************************)
VARIABLES
    prototype_map,  \* the adjacency rules, never modified
    order,          \* the iteration order of the board's HashMap
    board,          \* the board: position -> tile
    stack,          \* the active calls of collapse(), innermost last
    pc,             \* "call": a call of collapse() starts; "loop": the innermost
                    \* call is at the head of its candidate loop; "ret": a call
                    \* has returned retval to its caller; "done": the top-level
                    \* call has returned; "panic": the process has panicked;
                    \* "ready", "propagated", "restored": the steps of a
                    \* propagation that is undone at once
    retval,         \* the value the last finished call returned
    panic,          \* the panic message, "" while there is none
    returned        \* history: the board as it was when the call that returned
                    \* last was entered

vars == <<prototype_map, order, board, stack, pc, retval, panic, returned>>

\* a call of collapse(): its local variables, and the board at its entry
Frame(pos, possible_tiles, entry) ==
    [pos |-> pos, possible_tiles |-> possible_tiles, i |-> 1,
     possible_tile |-> "", saved_domain |-> <<>>, modified |-> <<>>,
     entry |-> entry]

Top == stack[Len(stack)]

Pop == SubSeq(stack, 1, Len(stack) - 1)

SetTop(frame) == [stack EXCEPT ![Len(stack)] = frame]

(***************************************************************************)
(* main: the rules are loaded, the board is created, collapse() is called. *)
(***************************************************************************)
Init ==
    /\ prototype_map \in RuleTables
    /\ \E size \in Sizes, key_order \in Perms(DOMAIN prototype_map) :
          /\ order \in Perms(Cells(size))
          /\ board = create(key_order, size)
    /\ stack = <<>>
    /\ pc = "call"
    /\ retval = FALSE
    /\ panic = ""
    /\ returned = board

Panic(msg) ==
    /\ pc' = "panic"
    /\ panic' = msg

(***************************************************************************)
(* collapse(), lines 274-309.                                              *)
(***************************************************************************)
\* lines 276-278: the board is fully collapsed, the call returns true
Solved ==
    /\ pc = "call"
    /\ is_collapsed(board)
    /\ pc' = "ret"
    /\ retval' = TRUE
    /\ returned' = board
    /\ UNCHANGED <<prototype_map, order, board, stack, panic>>

\* lines 280-286: pick the cell, copy its domain and shuffle the copy
Select ==
    /\ pc = "call"
    /\ ~is_collapsed(board)
    /\ LET pos == get_lowest_entropy(board, order)
       IN  IF pos \notin DOMAIN board
           THEN /\ Panic("called `Option::unwrap()` on a `None` value")
                /\ UNCHANGED stack
           ELSE IF board[pos].tag = "Collapsed"
           THEN /\ Panic("lowest entropy shouldn't be collapsed")
                /\ UNCHANGED stack
           ELSE /\ \E possible_tiles \in Shuffles(board[pos].domain) :
                      stack' = Append(stack, Frame(pos, possible_tiles, board))
                /\ pc' = "loop"
                /\ UNCHANGED panic
    /\ UNCHANGED <<prototype_map, order, board, retval, returned>>

\* line 289: the candidate fails is_valid_placement and is skipped
Skip ==
    /\ pc = "loop"
    /\ Top.i <= Len(Top.possible_tiles)
    /\ is_valid_placement(board, prototype_map, Top.possible_tiles[Top.i], Top.pos) = "false"
    /\ stack' = SetTop([Top EXCEPT !.i = @ + 1])
    /\ UNCHANGED <<prototype_map, order, board, pc, retval, panic, returned>>

\* lines 289-299: the candidate passes; save the domain, collapse the cell,
\* propagate, and call collapse() again
Try ==
    /\ pc = "loop"
    /\ Top.i <= Len(Top.possible_tiles)
    /\ LET possible_tile == Top.possible_tiles[Top.i]
           pos == Top.pos
           valid == is_valid_placement(board, prototype_map, possible_tile, pos)
           placed == [board EXCEPT ![pos] = Collapsed(possible_tile)]
           after == propagate_collapse(placed, prototype_map, pos)
       IN  /\ valid # "false"
           /\ IF valid = "panic"
              THEN /\ Panic("lookup miss")
                   /\ UNCHANGED <<board, stack>>
              ELSE IF board[pos].tag # "Uncollapsed"
              THEN /\ Panic("lowest entropy tile shouldn't be collapsed")
                   /\ UNCHANGED <<board, stack>>
              ELSE IF propagate_panics(placed, prototype_map, pos)
              THEN /\ Panic("lookup miss")
                   /\ board' = placed
                   /\ UNCHANGED stack
              ELSE /\ board' = after.board
                   /\ stack' = SetTop([Top EXCEPT
                          !.possible_tile = possible_tile,
                          !.saved_domain = board[pos].domain,
                          !.modified = after.modified])
                   /\ pc' = "call"
                   /\ UNCHANGED panic
    /\ UNCHANGED <<prototype_map, order, retval, returned>>

\* lines 299-301: the inner call returned true, this call returns true
Succeed ==
    /\ pc = "ret"
    /\ stack # <<>>
    /\ retval
    /\ stack' = Pop
    /\ returned' = Top.entry
    /\ UNCHANGED <<prototype_map, order, board, pc, retval, panic>>

\* mutant of Backtrack: the loop does not move on to the next candidate
Backtrack_same_candidate ==
    /\ pc = "ret"
    /\ stack # <<>>
    /\ ~retval
    /\ board' = [restore_domains(board, Top.modified) EXCEPT
                    ![Top.pos] = Uncollapsed(Top.saved_domain)]
    /\ stack' = SetTop([Top EXCEPT !.possible_tile = "",
                                   !.saved_domain = <<>>, !.modified = <<>>])
    /\ pc' = "loop"
    /\ UNCHANGED <<prototype_map, order, retval, panic, returned>>

\* mutant of Backtrack: the cell is put back with an empty domain
Backtrack_forgets_domain ==
    /\ pc = "ret"
    /\ stack # <<>>
    /\ ~retval
    /\ board' = [restore_domains(board, Top.modified) EXCEPT
                    ![Top.pos] = Uncollapsed(<<>>)]
    /\ stack' = SetTop([Top EXCEPT !.i = @ + 1, !.possible_tile = "",
                                   !.saved_domain = <<>>, !.modified = <<>>])
    /\ pc' = "loop"
    /\ UNCHANGED <<prototype_map, order, retval, panic, returned>>

\* lines 302-304: the inner call returned false; restore the domains, put
\* the cell back and go on with the next candidate
Backtrack ==
    /\ pc = "ret"
    /\ stack # <<>>
    /\ ~retval
    /\ board' = [restore_domains(board, Top.modified) EXCEPT
                    ![Top.pos] = Uncollapsed(Top.saved_domain)]
    /\ stack' = SetTop([Top EXCEPT !.i = @ + 1, !.possible_tile = "",
                                   !.saved_domain = <<>>, !.modified = <<>>])
    /\ pc' = "loop"
    /\ UNCHANGED <<prototype_map, order, retval, panic, returned>>

\* line 308: no candidate is left, the call returns false
Exhausted ==
    /\ pc = "loop"
    /\ Top.i > Len(Top.possible_tiles)
    /\ stack' = Pop
    /\ pc' = "ret"
    /\ retval' = FALSE
    /\ returned' = Top.entry
    /\ UNCHANGED <<prototype_map, order, board, panic>>

\* line 336: the top-level call has returned to main
Finish ==
    /\ pc = "ret"
    /\ stack = <<>>
    /\ pc' = "done"
    /\ UNCHANGED <<prototype_map, order, board, stack, retval, panic, returned>>

Next ==
    \/ Solved
    \/ Select
    \/ Skip
    \/ Try
    \/ Succeed
    \/ Backtrack
    \/ Exhausted
    \/ Finish

Spec == Init /\ [][Next]_vars

\* the program is sequential: whenever it can take a step, it takes it
FairSpec == Spec /\ WF_vars(Next)

(***************************************************************************)
(* propagate_collapse followed at once by restore_domains, from any board  *)
(* the program can hold: every cell collapsed to a key of the table or     *)
(* uncollapsed with a domain of distinct keys.                              *)
(***************************************************************************)
\* the cells in row-major order
row_major(size) ==
    [k \in 1..(size[1] * size[2]) |-> <<(k - 1) \div size[2], (k - 1) % size[2]>>]

\* the sequences of distinct elements of S
Arrangements(S) == UNION {Perms(T) : T \in SUBSET S}

TileStates(pm) ==
    {Collapsed(val) : val \in DOMAIN pm}
        \cup {Uncollapsed(domain) : domain \in Arrangements(DOMAIN pm)}

RoundTripInit ==
    /\ prototype_map \in RuleTables
    /\ \E size \in Sizes :
          /\ order = row_major(size)
          /\ board \in [Cells(size) -> TileStates(prototype_map)]
    /\ stack = <<>>
    /\ pc = "ready"
    /\ retval = FALSE
    /\ panic = ""
    /\ returned = board

\* line 298 on its own: propagate_collapse from a collapsed cell
Propagate(pos) ==
    /\ pc = "ready"
    /\ board[pos].tag = "Collapsed"
    /\ LET after == propagate_collapse(board, prototype_map, pos)
       IN  IF propagate_panics(board, prototype_map, pos)
           THEN /\ Panic("lookup miss")
                /\ UNCHANGED <<board, stack>>
           ELSE /\ board' = after.board
                /\ stack' = <<[Frame(pos, <<>>, board) EXCEPT
                                  !.modified = after.modified]>>
                /\ pc' = "propagated"
                /\ UNCHANGED panic
    /\ UNCHANGED <<prototype_map, order, retval, returned>>

\* line 302 on its own: restore_domains with the list just returned
Restore ==
    /\ pc = "propagated"
    /\ board' = restore_domains(board, Top.modified)
    /\ pc' = "restored"
    /\ UNCHANGED <<prototype_map, order, stack, retval, panic, returned>>

RoundTripNext ==
    \/ \E pos \in DOMAIN board : Propagate(pos)
    \/ Restore

RoundTripSpec == RoundTripInit /\ [][RoundTripNext]_vars

(***************************************************************************)
(* Properties.                                                             *)
(***************************************************************************)
\* the list of tile t for direction d contains v (false when a key is missing)
Lists(pm, t, d, v) ==
    /\ t \in DOMAIN pm
    /\ d \in DOMAIN pm[t]
    /\ v \in pm[t][d]

\* x at [r, c] and y at [r + 1, c]
FirstAxisOk(pm, x, y) == Lists(pm, x, "right", y) /\ Lists(pm, y, "left", x)

\* x at [r, c] and y at [r, c + 1]
SecondAxisOk(pm, x, y) == Lists(pm, x, "above", y) /\ Lists(pm, y, "below", x)

\* f assigns a tile name to every cell and every adjacent pair obeys the rules
Satisfies(pm, f) ==
    \A pos \in DOMAIN f :
        /\ <<pos[1] + 1, pos[2]>> \in DOMAIN f =>
              FirstAxisOk(pm, f[pos], f[<<pos[1] + 1, pos[2]>>])
        /\ <<pos[1], pos[2] + 1>> \in DOMAIN f =>
              SecondAxisOk(pm, f[pos], f[<<pos[1], pos[2] + 1>>])

Values(b) == [pos \in DOMAIN b |-> b[pos].val]

Done == pc = "done"

\* the boards agree on which cells are collapsed and to what, and on the
\* members of every uncollapsed domain
SameLogicalState(b1, b2) ==
    /\ DOMAIN b1 = DOMAIN b2
    /\ \A pos \in DOMAIN b1 :
          /\ b1[pos].tag = b2[pos].tag
          /\ b1[pos].val = b2[pos].val
          /\ Range(b1[pos].domain) = Range(b2[pos].domain)

\* C1: whenever the top-level collapse() returns true, every cell is
\* collapsed and every pair of 4-adjacent cells obeys the rule in both
\* directions: x at [r,c], y at [r+1,c]: right of x lists y and left of y
\* lists x; x at [r,c], y at [r,c+1]: above of x lists y and below of y lists x
C1_ConstraintSatisfaction ==
    (Done /\ retval) =>
        /\ is_collapsed(board)
        /\ Satisfies(prototype_map, Values(board))

\* a 2 x 2 board solved under the asymmetric table with both tiles on it
C1_Witness ==
    /\ Done /\ retval
    /\ prototype_map = Skewed
    /\ DOMAIN board = Cells(<<2, 2>>)
    /\ {board[pos].val : pos \in DOMAIN board} = Both

\* C2: the top-level collapse() returns false only if no assignment of tile
\* names to the cells satisfies the rules
C2_Complete ==
    (Done /\ ~retval) =>
        ~\E f \in [DOMAIN board -> DOMAIN prototype_map] : Satisfies(prototype_map, f)

\* on a board that has a satisfying assignment an inner call has returned
\* false, so the search has to go on to find it
C2_Witness ==
    /\ pc = "ret" /\ ~retval
    /\ stack # <<>>
    /\ \E f \in [DOMAIN board -> DOMAIN prototype_map] : Satisfies(prototype_map, f)

\* C3: whenever a call of collapse() returns false, the board is in the
\* logical state it had when that call was entered
C3_Restoration ==
    (pc \in {"ret", "done"} /\ ~retval) => SameLogicalState(board, returned)

\* a call has returned false after restore_domains put tiles back: a domain
\* has its members in another order than at entry
C3_Witness ==
    /\ pc = "ret" /\ ~retval
    /\ board # returned


\* q is one step away from pos in one coordinate
Neighbours(pos, q) ==
    \/ q[2] = pos[2] /\ (q[1] = pos[1] + 1 \/ q[1] = pos[1] - 1)
    \/ q[1] = pos[1] /\ (q[2] = pos[2] + 1 \/ q[2] = pos[2] - 1)

\* C4: after propagate_collapse(p) from a collapsed cell p and
\* restore_domains with the returned list, every neighbour of p is collapsed
\* or uncollapsed as before and its domain has the members it had before
C4_RoundTrip ==
    pc = "restored" =>
        \A q \in DOMAIN board :
            Neighbours(Top.pos, q) =>
                /\ board[q].tag = returned[q].tag
                /\ board[q].val = returned[q].val
                /\ Range(board[q].domain) = Range(returned[q].domain)

\* a round trip that removed tiles from two neighbours and put them back in
\* another order
C4_Witness ==
    /\ pc = "restored"
    /\ Cardinality({Top.modified[k][1] : k \in DOMAIN Top.modified}) >= 2
    /\ board # returned

\* every entry of the table has a list for each of the four directions
HasAllDirections(pm) == \A t \in DOMAIN pm : DOMAIN pm[t] = Directions

\* C5: under every rule table, every board size and every order of
\* candidates the run of collapse() ends, and it ends with the top-level call
\* returning when every tile of the table has its four lists
C5_Termination ==
    /\ <>(Done \/ pc = "panic")
    /\ HasAllDirections(prototype_map) => <>Done

\* the top-level call has returned false on four cells, after every
\* candidate of every cell it chose was tried
C5_Witness ==
    /\ Done /\ ~retval
    /\ Cardinality(DOMAIN board) = 4

\* C6 as stated: under Directed, on the cells [0,0] and [0,1] (one row, two
\* columns), the solve succeeds with A at [0,0] and B at [0,1]
C6_RowOfTwo ==
    (Done /\ prototype_map = Directed /\ DOMAIN board = Cells(<<1, 2>>)) =>
        /\ retval
        /\ board[<<0, 0>>] = Collapsed("A")
        /\ board[<<0, 1>>] = Collapsed("B")

\* C6 amended: under Directed, on the cells [0,0] and [1,0] (they differ in
\* the first coordinate), the solve succeeds with A at [0,0] and B at [1,0];
\* on the cells [0,0] and [0,1] it returns false
C6_FirstCoordinate ==
    /\ (Done /\ prototype_map = Directed /\ DOMAIN board = Cells(<<2, 1>>)) =>
          /\ retval
          /\ board[<<0, 0>>] = Collapsed("A")
          /\ board[<<1, 0>>] = Collapsed("B")
    /\ (Done /\ prototype_map = Directed /\ DOMAIN board = Cells(<<1, 2>>)) =>
          ~retval

\* the solve under Directed on the cells [0,0] and [1,0] has returned
C6_Witness ==
    /\ Done
    /\ prototype_map = Directed
    /\ DOMAIN board = Cells(<<2, 1>>)

\* C7: with every list empty, on two adjacent cells, the top-level
\* collapse() terminates by returning false (a panic never returns)
C7_Unsatisfiable ==
    (prototype_map = AllowNone /\ Cardinality(DOMAIN board) = 2) =>
        <>(Done /\ ~retval)

\* the solve with every list empty on two cells has returned false
C7_Witness ==
    /\ Done /\ ~retval
    /\ prototype_map = AllowNone
    /\ Cardinality(DOMAIN board) = 2

\* C8 as stated: the cell collapse() works on is a function of the board
\* alone: whatever the iteration order of the map, get_lowest_entropy
\* returns for the board at entry the cell the call has chosen
C8_ChoiceByBoardAlone ==
    pc = "loop" =>
        \A o \in Perms(DOMAIN board) : get_lowest_entropy(Top.entry, o) = Top.pos

\* C9 as stated: under a table that is not total the solver never returns
C9_FatalWhenNotTotal == ~IsTotal(prototype_map) => ~Done

\* C9 amended: a list that names a tile without entry is never a reason to
\* fail: every name looked up is a key of the table, and the solver panics
\* only when an entry lacks the list of a direction
C9_PanicOnlyOnMissingList ==
    /\ \A pos \in DOMAIN board :
          /\ board[pos].tag = "Collapsed" => board[pos].val \in DOMAIN prototype_map
          /\ Range(board[pos].domain) \subseteq DOMAIN prototype_map
    /\ pc = "panic" => ~HasAllDirections(prototype_map)

\* under a table that is not total the solve has returned true on four cells
C9_Witness ==
    /\ Done /\ retval
    /\ ~IsTotal(prototype_map)
    /\ Cardinality(DOMAIN board) = 4

\* pos is an uncollapsed cell of b and no uncollapsed cell has a shorter domain
MinimalUncollapsed(b, pos) ==
    /\ pos \in DOMAIN b
    /\ b[pos].tag = "Uncollapsed"
    /\ \A q \in DOMAIN b :
          b[q].tag = "Uncollapsed" => Len(b[pos].domain) <= Len(b[q].domain)

HasEmptyDomain(b) ==
    \E q \in DOMAIN b : b[q].tag = "Uncollapsed" /\ b[q].domain = <<>>

\* C10: on a board with an uncollapsed cell, get_lowest_entropy returns an
\* uncollapsed cell of minimal domain size, and so did it for every active
\* call; a call entered with an empty domain on the board has no candidate,
\* changes nothing and returns false
C10_LowestEntropy ==
    /\ ~is_collapsed(board) =>
          MinimalUncollapsed(board, get_lowest_entropy(board, order))
    /\ \A k \in DOMAIN stack : MinimalUncollapsed(stack[k].entry, stack[k].pos)
    /\ (pc = "loop" /\ HasEmptyDomain(Top.entry)) =>
          /\ Top.possible_tiles = <<>>
          /\ board = Top.entry
    /\ (pc \in {"ret", "done"} /\ HasEmptyDomain(returned)) =>
          /\ ~retval
          /\ board = returned

\* a call entered with an empty domain next to a non-empty one has returned
C10_Witness ==
    /\ pc = "ret"
    /\ HasEmptyDomain(returned)
    /\ \E q \in DOMAIN returned :
          returned[q].tag = "Uncollapsed" /\ returned[q].domain # <<>>

\* the places in the scan `scan` of the uncollapsed cells of minimal domain
MinimalPlaces(b, scan) == {k \in DOMAIN scan : MinimalUncollapsed(b, scan[k])}

\* the minimal uncollapsed cell met first, and the one met last, in the scan
FirstMinimal(b, scan) ==
    scan[CHOOSE k \in MinimalPlaces(b, scan) : \A j \in MinimalPlaces(b, scan) : k <= j]

LastMinimal(b, scan) ==
    scan[CHOOSE k \in MinimalPlaces(b, scan) : \A j \in MinimalPlaces(b, scan) : k >= j]

\* C11 as stated: among the uncollapsed cells of smallest domain the call
\* works on the one its scan of the board met first
C11_FirstInScan ==
    pc = "loop" => Top.pos = FirstMinimal(Top.entry, order)

\* C11 amended: the scan follows the iteration order of the board's map and
\* among the uncollapsed cells of smallest domain the one met last is returned
C11_LastInScan ==
    /\ ~is_collapsed(board) =>
          get_lowest_entropy(board, order) = LastMinimal(board, order)
    /\ pc = "loop" => Top.pos = LastMinimal(Top.entry, order)

\* a call has chosen among several uncollapsed cells of smallest domain, and
\* not the one met first
C11_Witness ==
    /\ pc = "loop"
    /\ Cardinality(MinimalPlaces(Top.entry, order)) >= 2
    /\ Top.pos # FirstMinimal(Top.entry, order)

\* the lists of the table mirror each other: x lists y in "right" exactly
\* when y lists x in "left", and x lists y in "above" exactly when y lists x
\* in "below"
Mirrored(pm) ==
    /\ HasAllDirections(pm)
    /\ \A x \in DOMAIN pm, y \in DOMAIN pm :
          /\ y \in pm[x]["right"] <=> x \in pm[y]["left"]
          /\ y \in pm[x]["above"] <=> x \in pm[y]["below"]

\* the innermost call is about to test a candidate
AtCandidate == pc = "loop" /\ Top.i <= Len(Top.possible_tiles)

\* C12 as stated: under every rule table, every candidate the loop takes
\* from the domain of the chosen cell passes is_valid_placement
C12_CheckRedundant ==
    AtCandidate =>
        is_valid_placement(board, prototype_map, Top.possible_tiles[Top.i], Top.pos)
            = "true"

\* C12 amended: every candidate passes is_valid_placement when the lists of
\* the table mirror each other
C12_RedundantWhenMirrored ==
    (AtCandidate /\ Mirrored(prototype_map)) =>
        is_valid_placement(board, prototype_map, Top.possible_tiles[Top.i], Top.pos)
            = "true"

\* under a mirrored table that forbids a pair, a candidate is tested next to
\* a collapsed neighbour
C12_Witness ==
    /\ AtCandidate
    /\ prototype_map = Alternate
    /\ \E q \in DOMAIN board : Neighbours(Top.pos, q) /\ board[q].tag = "Collapsed"

\* the innermost call has just seen its recursive call fail and is about to
\* undo the candidate
AtUndo == pc = "ret" /\ ~retval /\ stack # <<>>

\* the board restore_domains holds when it reaches the k-th pair of `tiles`
RestoredUpTo(b, tiles, k) == restore_domains(b, SubSeq(tiles, 1, k - 1))

\* C13: every pair collapse hands to restore_domains names a cell that is
\* on the board and Uncollapsed when the pair is processed, so the branch
\* that replaces a Collapsed cell by a one-tile domain is never taken
C13_NoLossyRestore ==
    AtUndo =>
        \A k \in DOMAIN Top.modified :
            LET b == RestoredUpTo(board, Top.modified, k)
                pos == Top.modified[k][1]
            IN  /\ pos \in DOMAIN b
                /\ b[pos].tag = "Uncollapsed"

\* a failed candidate whose propagation removed tiles from two or more
\* places is about to be undone
C13_Witness == AtUndo /\ Len(Top.modified) >= 2

\* the direction whose list propagate_collapse(p) reads for the neighbour q
LabelAt(p, q) ==
    IF q = <<p[1] - 1, p[2]>> THEN "right"
    ELSE IF q = <<p[1] + 1, p[2]>> THEN "left"
    ELSE IF q = <<p[1], p[2] - 1>> THEN "above"
    ELSE "below"

\* how many times e occurs in s
Occurrences(s, e) == Cardinality({i \in DOMAIN s : s[i] = e})

\* the pairs (q, e) a propagation from p over the board `old` has to remove:
\* q an uncollapsed neighbour of p, e in its domain, and the list of e for
\* the direction of q without the value of p
Removed(pm, old, p, q, e) ==
    /\ Neighbours(p, q)
    /\ old[q].tag = "Uncollapsed"
    /\ e \in Range(old[q].domain)
    /\ old[p].val \notin pm[e][LabelAt(p, q)]

\* C14: propagate_collapse(p) from a cell collapsed to v leaves in each
\* uncollapsed neighbour, in their order, the candidates whose list for the
\* direction of that neighbour contains v, returns one pair per removal and
\* no other pair, and leaves every other cell as it was; from an uncollapsed
\* cell it returns the empty list and the board as it was
C14_PropagateEffect ==
    /\ pc = "propagated" =>
          LET p == Top.pos
              old == Top.entry
          IN  /\ DOMAIN board = DOMAIN old
              /\ \A q \in DOMAIN board :
                    LET stays(e) == ~Removed(prototype_map, old, p, q, e)
                    IN  IF Neighbours(p, q) /\ old[q].tag = "Uncollapsed"
                        THEN board[q] = Uncollapsed(SelectSeq(old[q].domain, stays))
                        ELSE board[q] = old[q]
              /\ \A q \in DOMAIN board, e \in DOMAIN prototype_map :
                    Occurrences(Top.modified, <<q, e>>) =
                        IF Removed(prototype_map, old, p, q, e)
                        THEN Occurrences(old[q].domain, e)
                        ELSE 0
              /\ \A k \in DOMAIN Top.modified :
                    /\ Top.modified[k][1] \in DOMAIN board
                    /\ Top.modified[k][2] \in DOMAIN prototype_map
    /\ pc = "ready" =>
          \A pos \in DOMAIN board :
              board[pos].tag = "Uncollapsed" =>
                  propagate_collapse(board, prototype_map, pos)
                      = [board |-> board, modified |-> <<>>]

\* a propagation that removed a tile from one neighbour, kept a tile in it,
\* and passed over a collapsed neighbour
C14_Witness ==
    /\ pc = "propagated"
    /\ \E q \in DOMAIN board :
          /\ Neighbours(Top.pos, q)
          /\ board[q].tag = "Uncollapsed"
          /\ board[q].domain # <<>>
          /\ board[q] # Top.entry[q]
    /\ \E q \in DOMAIN board : Neighbours(Top.pos, q) /\ board[q].tag = "Collapsed"

\* C15: the candidate the loop is about to place is a member of the domain
\* the cell holds at that moment, on the first candidate and on every later
\* one; and in every call, the value its cell is collapsed to is a member of
\* the domain it saved just before the assignment
C15_CollapsedFromDomain ==
    /\ (AtCandidate /\ board[Top.pos].tag = "Uncollapsed") =>
          Top.possible_tiles[Top.i] \in Range(board[Top.pos].domain)
    /\ \A k \in DOMAIN stack :
          stack[k].possible_tile # "" =>
              /\ stack[k].possible_tile \in Range(stack[k].saved_domain)
              /\ board[stack[k].pos].tag = "Collapsed"
              /\ board[stack[k].pos].val = stack[k].possible_tile

\* a call has collapsed its cell to its second or a later candidate, after
\* an earlier candidate was collapsed and backtracked (under a mirrored
\* table no candidate is skipped)
C15_Witness ==
    \E k \in DOMAIN stack :
        /\ Mirrored(prototype_map)
        /\ stack[k].possible_tile # ""
        /\ stack[k].i >= 2
        /\ board[stack[k].pos].tag = "Collapsed"
        /\ \E j \in 1..(stack[k].i - 1) :
              stack[k].possible_tiles[j] # stack[k].possible_tile

\* the undo in the order of the code: restore_domains, then the cell
UndoRestoreFirst(b, frame) ==
    [restore_domains(b, frame.modified) EXCEPT
        ![frame.pos] = Uncollapsed(frame.saved_domain)]

\* the undo in the other order: the cell, then restore_domains
UndoResetFirst(b, frame) ==
    restore_domains([b EXCEPT ![frame.pos] = Uncollapsed(frame.saved_domain)],
                    frame.modified)

\* C16: when a candidate has failed, the list returned by propagate_collapse
\* does not name the collapsed cell itself, and restoring the domains before
\* resetting the cell gives the same board as resetting the cell first
C16_UndoOrder ==
    AtUndo =>
        /\ \A k \in DOMAIN Top.modified : Top.modified[k][1] # Top.pos
        /\ UndoRestoreFirst(board, Top) = UndoResetFirst(board, Top)

\* a nested call undoes a candidate whose propagation removed a tile
C16_Witness == AtUndo /\ Len(stack) >= 2 /\ Top.modified # <<>>

\* the collapsed cell n excludes the tile e from its neighbour q: the list
\* of e for the direction of q does not contain the value of n
Excludes(pm, b, n, q, e) ==
    /\ Neighbours(n, q)
    /\ b[n].tag = "Collapsed"
    /\ ~Lists(pm, e, LabelAt(n, q), b[n].val)

\* the tiles no collapsed neighbour of q excludes
Consistent(pm, b, q) ==
    {e \in DOMAIN pm : \A n \in DOMAIN b : ~Excludes(pm, b, n, q, e)}

\* C17: at every entry to collapse() and in the candidate loop, after a
\* selection as after a backtrack, the domain of every uncollapsed cell has
\* as members exactly the tiles of the table that none of its currently
\* collapsed neighbours excludes
C17_ForwardChecking ==
    pc \in {"call", "loop"} =>
        \A q \in DOMAIN board :
            board[q].tag = "Uncollapsed" =>
                Range(board[q].domain) = Consistent(prototype_map, board, q)

\* after a backtrack under a mirrored table (no candidate is skipped), an
\* uncollapsed cell next to a collapsed one has lost a tile, and another
\* uncollapsed cell has its full domain back
C17_Witness ==
    /\ pc = "loop"
    /\ Top.i >= 2
    /\ Mirrored(prototype_map)
    /\ \E q \in DOMAIN board :
          /\ board[q].tag = "Uncollapsed"
          /\ Range(board[q].domain) # DOMAIN prototype_map
    /\ \E q \in DOMAIN board :
          /\ q # Top.pos
          /\ Neighbours(Top.pos, q)
          /\ board[q].tag = "Uncollapsed"
          /\ Range(board[q].domain) = DOMAIN prototype_map

\* no element occurs twice in s
NoDuplicates(s) == \A i \in DOMAIN s, j \in DOMAIN s : s[i] = s[j] => i = j

\* C18: in every state of a run of collapse(), the domain of every
\* uncollapsed cell holds no tile twice
C18_NoDuplicates ==
    \A q \in DOMAIN board :
        board[q].tag = "Uncollapsed" => NoDuplicates(board[q].domain)

\* restore_domains has appended tiles: after a backtrack a cell holds the
\* tiles it held when the call was entered, in another order
C18_Witness ==
    /\ pc = "loop"
    /\ Top.i >= 2
    /\ \E q \in DOMAIN board :
          /\ board[q].tag = "Uncollapsed"
          /\ Top.entry[q].tag = "Uncollapsed"
          /\ Len(board[q].domain) >= 2
          /\ board[q].domain # Top.entry[q].domain
          /\ Range(board[q].domain) = Range(Top.entry[q].domain)

\* the messages of the two panic! calls of collapse()
CollapsePanics ==
    {"lowest entropy shouldn't be collapsed",
     "lowest entropy tile shouldn't be collapsed"}

\* C19: neither panic! of collapse() is ever raised: when is_collapsed()
\* has returned false, get_lowest_entropy returns a cell of the board that
\* is Uncollapsed, and the chosen cell is Uncollapsed whenever the loop is at
\* a candidate, the first one as every later one
C19_PanicsUnreachable ==
    /\ panic \notin CollapsePanics
    /\ (pc = "call" /\ ~is_collapsed(board)) =>
          LET pos == get_lowest_entropy(board, order)
          IN  /\ pos \in DOMAIN board
              /\ board[pos].tag = "Uncollapsed"
    /\ pc = "loop" => board[Top.pos].tag = "Uncollapsed"

\* the loop of a nested call is at its second candidate, after the first
\* one was collapsed and backtracked (under a mirrored table no candidate is
\* skipped)
C19_Witness ==
    /\ AtCandidate
    /\ Top.i = 2
    /\ Len(stack) >= 2
    /\ Mirrored(prototype_map)
    /\ board[Top.pos].tag = "Uncollapsed"

====
